---- MODULE Spec2Model ----
(***************************************************************************)
(* State-machine model of src/src/http.cpp (namespace http): the Resolver, *)
(* the Connection and the Request exchange                                 *)
(*   send -> resolve -> connect -> post/write -> read header -> read body  *)
(*        -> terminate.                                                    *)
(*                                                                         *)
(* The specifications of the module:                                       *)
(*   Spec / FairSpec : one Request driven by the reactor thread; every     *)
(*                     asio completion handler is one atomic action.       *)
(*   ResolverSpec    : one Resolver used from several threads; every       *)
(*                     critical section of mutex_ is a lock step and a     *)
(*                     body step, callbacks are invoked one per step.      *)
(*   CloseSpec       : Spec with a caller that closes the Connection or    *)
(*                     ends the Request while the exchange runs.           *)
(*   TimerSpec       : Connection::timeout called, and its timer expiring, *)
(*                     on a Connection the caller may close or release.    *)
(*   BuildSpec       : the setters of a Request and build(), called in any *)
(*                     order.                                              *)
(*   ReentrySpec     : the call stack of the reactor thread when the       *)
(*                     caller's callbacks call back into the Request and   *)
(*                     the Resolver, with the mutexes each frame holds.    *)
(*                                                                         *)
(* Bytes on the wire are natural numbers.  The token 0 stands for a whole  *)
(* response header block (status line, header lines and the "\r\n\r\n"     *)
(* delimiter) whose content is given by srv; the body bytes the server     *)
(* sends are 1, 2, ..., k, so that a lost, repeated or reordered byte      *)
(* changes the sequence.                                                   *)
(***************************************************************************)
EXTENDS Integers, Sequences, FiniteSets, TLC

\* ---------------------------------------------------------------- bounds
MaxSends == 2        \* send() calls on the Request
MaxBody == 2         \* body bytes the server sends per response
MaxLength == 2       \* largest Content-Length value the server declares
MaxCallbacks == 3    \* add_callback calls on the Resolver (ResolverSpec)
MaxRequestBody == 2  \* bytes of a body handed to set_body (BuildSpec)
MaxArmings == 3      \* Connection::timeout calls (TimerSpec)
MaxNesting == 2      \* user callbacks on the call stack (ReentrySpec)

VARIABLES
    rq,         \* the Request (with the Connection it owns and its observer)
    resolver,   \* the Resolver's fields: completed_, ec_, endpoints_, cbs_
    srv,        \* what the peer does: fixed for one behaviour
    wire,       \* tokens the peer has sent and the socket has not yet read
    peer,       \* "none": never connected, "up", "closed": peer closed/reset
    io,         \* history: completions of the current send(), in order
    mutex_,     \* Resolver::mutex_: "free" or the thread that holds it
    pc,         \* ResolverSpec: where each thread is; ReentrySpec: call stack
    next_cb,    \* ResolverSpec: id of the next callback to register
    reg,        \* ResolverSpec: thread -> callback it is registering
    local_cbs,  \* ResolverSpec: thread -> its local queue `cbs`
    result,     \* ResolverSpec: (ec, endpoints) of the completion handler
    calls,      \* ResolverSpec: callback -> the invocations it received
    timers      \* TimerSpec: the waits on the Connection's timeout_timer_

vars == <<rq, resolver, srv, wire, peer, io, mutex_, pc, next_cb, reg,
          local_cbs, result, calls, timers>>

reqVars == <<rq, srv, wire, peer, io, timers>>
thrVars == <<mutex_, pc, next_cb, reg, local_cbs, result, calls>>

\* ------------------------------------------------------------- helpers
Last(s) == s[Len(s)]

Min(a, b) == IF a < b THEN a ELSE b

\* std::string::substr(pos, n) on a sequence, pos counted from 0
substr(s, pos, n) == SubSeq(s, pos + 1, Min(Len(s), pos + n))

\* 1..n as a sequence: the body bytes of the server
Bytes(n) == [i \in 1..n |-> i]

\* index of the first header token in s, 0 when there is none
RECURSIVE find_delim(_, _)
find_delim(s, i) ==
    IF i > Len(s) THEN 0
    ELSE IF s[i] = 0 THEN i
    ELSE find_delim(s, i + 1)

\* asio error codes the model distinguishes
Success == "success"

NoOp == [kind |-> "none", exactly |-> 0, chunk |-> <<>>]

NoHeaders == [content_length |-> -1, connection |-> ""]

\* timeout_timer_ before the first Connection::timeout: no wait, no
\* callback handed over yet
NoTimers == [armed |-> <<>>, invoked |-> <<>>, refused |-> {}, next |-> 1]

\* restinio::http_connection_header_t
ConnectionTypes == {"close", "keep_alive", "upgrade"}

\* the fields a caller registers with set_header_field, in the key order
\* of the map headers_, and the values it gives them
HeaderFields == <<"Connection", "Content-Length">>

HeaderValues == {"close", "7"}

\* headers_ maps a field to its value, NoValue for a field not in the map
NoValue == "<unset>"

NoFields == [f \in {HeaderFields[i] : i \in 1..Len(HeaderFields)} |-> NoValue]

\* the bodies a caller hands to set_body, bytes 1 and 2
Bodies == UNION {[1..n -> 1..2] : n \in 0..MaxRequestBody}

\* The pieces of the request string: a line "field: value\r\n" (n is the
\* number printed as the value of the Content-Length line build adds; the
\* request line has no field), a bare "\r\n", and the body bytes.
Line(field, value, n) ==
    [t |-> "line", field |-> field, value |-> value, n |-> n, bytes |-> <<>>]

CRLF == [t |-> "crlf", field |-> "", value |-> "", n |-> 0, bytes |-> <<>>]

Body(b) == [t |-> "body", field |-> "", value |-> "", n |-> 0, bytes |-> b]

\* --------------------------------------------------- Request: observers
\* The registered on_state_change callback: it records the state and the
\* response snapshot it is handed.  notes is the record of the current
\* send() (emptied by send); dones (DONE notifications), last (the state
\* last notified), after_done (something was notified after a DONE) and
\* out_of_turn (something other than CREATED was notified right after a
\* DONE) span the whole life of the Request.
notify_state_change(r, state) ==
    [r EXCEPT !.notes = Append(@, [state  |-> state,
                                   status |-> r.response_.status_code,
                                   body   |-> r.response_.body]),
              !.dones = IF state = "DONE" THEN @ + 1 ELSE @,
              !.after_done = @ \/ r.last = "DONE",
              !.out_of_turn = @ \/ (r.last = "DONE" /\ state # "CREATED"),
              !.last = state]

\* ------------------------------------------------------ Request: parser
\* http_parser_execute on a parser in state p fed `data`: the events it
\* emits and the state it is left in.  States: "start" (expects a status
\* line), "body_len" (left body bytes to come), "body_eof" (body runs to
\* the end of the stream), "error" (a parse error: nothing more is emitted).
RECURSIVE http_parser_execute(_, _)
http_parser_execute(p, data) ==
    IF data = <<>> \/ p.state = "error" THEN [parser |-> p, events |-> <<>>]
    ELSE IF p.state = "start" THEN
        IF Head(data) # 0 THEN
            [parser |-> [state |-> "error", left |-> 0], events |-> <<>>]
        ELSE
            LET p1 == IF srv.content_length > 0
                         THEN [state |-> "body_len", left |-> srv.content_length]
                      ELSE IF srv.content_length = 0
                         THEN [state |-> "start", left |-> 0]
                      ELSE [state |-> "body_eof", left |-> 0]
                ev == <<[ev |-> "status", code |-> srv.status]>>
                      \o (IF srv.content_length >= 0
                          THEN <<[ev |-> "header", field |-> "Content-Length",
                                  value |-> srv.content_length]>>
                          ELSE <<>>)
                      \o (IF srv.keep_alive
                          THEN <<[ev |-> "header", field |-> "Connection",
                                  value |-> "keep-alive"]>>
                          ELSE <<>>)
                rest == http_parser_execute(p1, Tail(data))
            IN [parser |-> rest.parser, events |-> ev \o rest.events]
    ELSE IF p.state = "body_len" THEN
        LET n == Min(p.left, Len(data))
            p1 == IF p.left = n THEN [state |-> "start", left |-> 0]
                  ELSE [state |-> "body_len", left |-> p.left - n]
            rest == http_parser_execute(p1, SubSeq(data, n + 1, Len(data)))
        IN [parser |-> rest.parser,
            events |-> <<[ev |-> "body", chunk |-> SubSeq(data, 1, n)]>>
                       \o rest.events]
    ELSE \* body_eof
        [parser |-> p, events |-> <<[ev |-> "body", chunk |-> data]>>]

\* s appended n times to b: the chain of on_body wrappers, each of which
\* appends the chunk and calls the wrapper it replaced
RECURSIVE append_times(_, _, _)
append_times(b, s, n) == IF n = 0 THEN b ELSE append_times(b \o s, s, n - 1)

\* The callbacks init_parser installs, applied to one parser event.
\* r.wraps counts the init_parser calls: each call wraps cbs_->on_status,
\* on_header_field/value and on_body once more.  r.appends records how many
\* times the chain appended the chunk of the latest body event.
parser_callback(r, e) ==
    IF e.ev = "status" THEN [r EXCEPT !.response_.status_code = e.code]
    ELSE IF e.ev = "header" THEN
        IF e.field = "Content-Length"
            THEN [r EXCEPT !.response_.headers.content_length = e.value]
            ELSE [r EXCEPT !.response_.headers.connection = e.value]
    ELSE [r EXCEPT !.response_.body = append_times(@, e.chunk, r.wraps),
                   !.appends = r.wraps]

RECURSIVE run_events(_, _)
run_events(r, evs) ==
    IF evs = <<>> THEN r
    ELSE run_events(parser_callback(r, Head(evs)), Tail(evs))

\* Request::parse_request: parse errors are logged only
parse_request(r, request) ==
    LET res == http_parser_execute(r.parser_, request)
    IN run_events([r EXCEPT !.parser_ = res.parser], res.events)

\* Request::init_parser: http_parser_init and one more layer of wrappers
init_parser(r) ==
    [r EXCEPT !.parser_ = [state |-> "start", left |-> 0],
              !.wraps = @ + 1]

\* Request::set_header_field
set_header_field(r, field, value) == [r EXCEPT !.headers_[field] = value]

\* Request::set_connection_type
set_connection_type(r, connection) == [r EXCEPT !.connection_type_ = connection]

\* Request::set_body
set_body(r, body) == [r EXCEPT !.body_ = body]

\* for (auto header: headers_) request << field << ": " << value << "\r\n"
RECURSIVE header_lines(_, _)
header_lines(headers, i) ==
    IF i > Len(HeaderFields) THEN <<>>
    ELSE (IF headers[HeaderFields[i]] = NoValue THEN <<>>
          ELSE <<Line(HeaderFields[i], headers[HeaderFields[i]], 0)>>)
         \o header_lines(headers, i + 1)

\* build that writes the Content-Length line, the blank line and the body
\* whether or not the body is empty
build_always_length(r) ==
    IF r.connection_type_ = "upgrade"
    THEN [r EXCEPT !.exception = "invalid_argument"]
    ELSE
        LET conn_str == IF r.connection_type_ = "keep_alive" THEN "keep-alive"
                        ELSE "close"
        IN [r EXCEPT
               !.connection_type_ = IF @ = "keep_alive" THEN @ ELSE "close",
               !.request_ =
                   <<Line("", "request-line", 0)>>
                   \o header_lines(r.headers_, 1)
                   \o <<Line("Connection", conn_str, 0)>>
                   \o <<Line("Content-Length", "", Len(r.body_)), CRLF,
                        Body(r.body_)>>
                   \o <<CRLF>>]

\* Request::build.  With the directive upgrade it throws
\* std::invalid_argument before request_ is assigned; r.exception is the
\* exception that leaves the call.
build(r) ==
    IF r.connection_type_ = "upgrade"
    THEN [r EXCEPT !.exception = "invalid_argument"]
    ELSE
        LET conn_str == IF r.connection_type_ = "keep_alive" THEN "keep-alive"
                        ELSE "close"
        IN [r EXCEPT
               !.connection_type_ = IF @ = "keep_alive" THEN @ ELSE "close",
               !.request_ =
                   <<Line("", "request-line", 0)>>
                   \o header_lines(r.headers_, 1)
                   \o <<Line("Connection", conn_str, 0)>>
                   \o (IF r.body_ # <<>>
                       THEN <<Line("Content-Length", "", Len(r.body_)), CRLF,
                              Body(r.body_)>>
                       ELSE <<>>)
                   \o <<CRLF>>]

\* ------------------------------------------------- Request: termination
\* terminate that sets the status only on failure and otherwise keeps what
\* the parser recorded
terminate_keep_status(r, ec) ==
    notify_state_change(
        [r EXCEPT !.response_.status_code =
                      IF ec = Success \/ ec = "eof" \/ ec = "operation_aborted"
                      THEN (IF @ = 0 THEN 200 ELSE @) ELSE 0,
                  !.term_ec = ec,
                  !.terms = @ + 1,
                  !.first_status =
                      IF r.terms > 0 THEN @
                      ELSE IF ec = Success \/ ec = "eof"
                              \/ ec = "operation_aborted"
                      THEN (IF r.response_.status_code = 0 THEN 200
                            ELSE r.response_.status_code)
                      ELSE 0],
        "DONE")

\* terminate that takes connection_reset for a normal end, like end-of-file
terminate_reset_ok(r, ec) ==
    notify_state_change(
        [r EXCEPT !.response_.status_code =
                      IF ec = Success \/ ec = "eof" \/ ec = "operation_aborted"
                         \/ ec = "connection_reset"
                      THEN 200 ELSE 0,
                  !.term_ec = ec,
                  !.terms = @ + 1,
                  !.first_status =
                      IF r.terms > 0 THEN @
                      ELSE IF ec = Success \/ ec = "eof"
                              \/ ec = "operation_aborted"
                              \/ ec = "connection_reset"
                      THEN 200 ELSE 0],
        "DONE")

\* Request::terminate.  terms counts its invocations on the Request and
\* first_status keeps the status the first of them set (history).
terminate(r, ec) ==
    notify_state_change(
        [r EXCEPT !.response_.status_code =
                      IF ec = Success \/ ec = "eof" \/ ec = "operation_aborted"
                      THEN 200 ELSE 0,
                  !.term_ec = ec,
                  !.terms = @ + 1,
                  !.first_status =
                      IF r.terms > 0 THEN @
                      ELSE IF ec = Success \/ ec = "eof"
                              \/ ec = "operation_aborted"
                      THEN 200 ELSE 0],
        "DONE")

\* asio::async_write / async_read_until / async_read / async_connect:
\* the operation is left pending until its completion action
async_op(r, kind, exactly, chunk) ==
    [r EXCEPT !.op = [kind |-> kind, exactly |-> exactly, chunk |-> chunk]]

\* conn_-> with conn_ null (after end()): undefined behaviour.  By r.fate,
\* which the completion action draws, the process crashes or the access
\* through the null handle goes unnoticed and the Connection is taken for
\* not open.
null_conn(r) ==
    IF r.fate = "crash" THEN [r EXCEPT !.ub = "null conn_", !.crashed = TRUE]
    ELSE terminate([r EXCEPT !.ub = "null conn_"], "not_connected")

\* Request::post; an exception of build leaves post at once
post(r) ==
    IF r.conn_ = 0 \/ ~r.open THEN terminate(r, "not_connected")
    ELSE LET b == build(r)
             r1 == init_parser(b)
             r2 == notify_state_change(r1, "SENDING")
         IN IF b.exception # "" THEN b
            ELSE async_op(r2, "write", 0, <<>>)

\* handle_request that starts the header read without notifying RECEIVING
handle_request_silent(r, ec) ==
    IF r.conn_ = 0 THEN null_conn(r)
    ELSE IF ~r.open THEN terminate(r, "not_connected")
    ELSE IF ec # Success /\ ec # "eof" THEN terminate(r, ec)
    ELSE async_op(r, "read_until", 0, <<>>)

\* Request::handle_request
handle_request(r, ec) ==
    IF r.conn_ = 0 THEN null_conn(r)
    ELSE IF ~r.open THEN terminate(r, "not_connected")
    ELSE IF ec # Success /\ ec # "eof" THEN terminate(r, ec)
    ELSE async_op(notify_state_change(r, "RECEIVING"), "read_until", 0, <<>>)

\* Request::handle_response_body past its error checks: the carried chunk
\* and the bytes just read make the body so far
response_body(r, bytes, chunk) ==
    LET body == chunk \o substr(r.read_buf, 0, bytes)
        r0 == [r EXCEPT !.read_buf = <<>>]
        content_length == r0.response_.headers.content_length
    IN  IF content_length >= 0 /\ content_length > Len(body)
        THEN async_op(r0, "read", content_length - Len(body), body)
        ELSE
            LET r1 == IF (content_length >= 0 /\ content_length = Len(body))
                         \/ (content_length < 0 /\ body # <<>>)
                      THEN parse_request(
                               [r0 EXCEPT !.response_.body = body], body)
                      ELSE r0
            IN  IF r1.response_.headers.connection = "keep-alive"
                THEN async_op(r1, "read", 0, <<>>)
                ELSE IF r1.connection_type_ = "close"
                THEN terminate(r1, "eof")
                ELSE r1

\* handle_response_body without the return that follows terminate(ec) on
\* end-of-file
handle_response_body_no_return(r, ec, bytes, chunk) ==
    IF r.conn_ = 0 THEN null_conn(r)
    ELSE IF ~r.open THEN terminate(r, "not_connected")
    ELSE IF ec # Success /\ ec # "eof" THEN terminate(r, ec)
    ELSE IF ec = "eof" \/ ec = "connection_reset"
    THEN response_body(terminate(r, ec), bytes, chunk)
    ELSE response_body(r, bytes, chunk)

\* handle_response_body without the is_open test
handle_response_body_no_open_check(r, ec, bytes, chunk) ==
    IF r.conn_ = 0 THEN null_conn(r)
    ELSE IF ec # Success /\ ec # "eof" THEN terminate(r, ec)
    ELSE IF ec = "eof" \/ ec = "connection_reset" THEN terminate(r, ec)
    ELSE response_body(r, bytes, chunk)

\* Request::handle_response_body
handle_response_body(r, ec, bytes, chunk) ==
    IF r.conn_ = 0 THEN null_conn(r)
    ELSE IF ~r.open THEN terminate(r, "not_connected")
    ELSE IF ec # Success /\ ec # "eof" THEN terminate(r, ec)
    ELSE IF ec = "eof" \/ ec = "connection_reset" THEN terminate(r, ec)
    ELSE response_body(r, bytes, chunk)

\* handle_response_header that goes on to the body without notifying
\* RECEIVING when body bytes came with the header
handle_response_header_skip_receiving(r, ec, bytes) ==
    IF r.conn_ = 0 THEN null_conn(r)
    ELSE IF ~r.open THEN terminate(r, "not_connected")
    ELSE IF ec # Success /\ ec # "eof" THEN terminate(r, ec)
    ELSE IF ec = "eof" \/ ec = "connection_reset" THEN terminate(r, ec)
    ELSE
        LET str_s == r.read_buf
            headers == substr(str_s, 0, bytes)
            r1 == parse_request([r EXCEPT !.read_buf = <<>>], headers)
            r2 == notify_state_change(r1, "HEADER_RECEIVED")
        IN  IF r2.response_.headers.connection = "keep-alive"
               \/ r2.response_.headers.content_length >= 0
            THEN
                LET body == substr(str_s, bytes, Len(str_s))
                IN  IF body # <<>>
                    THEN handle_response_body(r2, Success, Len(body), body)
                    ELSE async_op(notify_state_change(r2, "RECEIVING"),
                                  "read", 0, <<>>)
            ELSE IF r2.connection_type_ = "close"
            THEN terminate(r2, "eof")
            ELSE r2

\* handle_response_header that takes end-of-file for a delivered header
handle_response_header_no_eof(r, ec, bytes) ==
    IF r.conn_ = 0 THEN null_conn(r)
    ELSE IF ~r.open THEN terminate(r, "not_connected")
    ELSE IF ec # Success /\ ec # "eof" THEN terminate(r, ec)
    ELSE
        LET str_s == r.read_buf
            headers == substr(str_s, 0, bytes)
            r1 == parse_request([r EXCEPT !.read_buf = <<>>], headers)
            r2 == notify_state_change(r1, "HEADER_RECEIVED")
        IN  IF r2.response_.headers.connection = "keep-alive"
               \/ r2.response_.headers.content_length >= 0
            THEN
                LET body == substr(str_s, bytes, Len(str_s))
                    r3 == notify_state_change(r2, "RECEIVING")
                IN  IF body # <<>>
                    THEN handle_response_body(r3, Success, Len(body), body)
                    ELSE async_op(r3, "read", 0, <<>>)
            ELSE IF r2.connection_type_ = "close"
            THEN terminate(r2, "eof")
            ELSE r2

\* Request::handle_response_header
handle_response_header(r, ec, bytes) ==
    IF r.conn_ = 0 THEN null_conn(r)
    ELSE IF ~r.open THEN terminate(r, "not_connected")
    ELSE IF ec # Success /\ ec # "eof" THEN terminate(r, ec)
    ELSE IF ec = "eof" \/ ec = "connection_reset" THEN terminate(r, ec)
    ELSE
        LET str_s == r.read_buf
            headers == substr(str_s, 0, bytes)
            r1 == parse_request([r EXCEPT !.read_buf = <<>>], headers)
            r2 == notify_state_change(r1, "HEADER_RECEIVED")
        IN  IF r2.response_.headers.connection = "keep-alive"
               \/ r2.response_.headers.content_length >= 0
            THEN
                LET body == substr(str_s, bytes, Len(str_s))
                    r3 == notify_state_change(r2, "RECEIVING")
                IN  IF body # <<>>
                    THEN handle_response_body(r3, Success, Len(body), body)
                    ELSE async_op(r3, "read", 0, <<>>)
            ELSE IF r2.connection_type_ = "close"
            THEN terminate(r2, "eof")
            ELSE r2

\* a connect callback that posts whatever the outcome of the connect
connect_cb_always_post(r, ec) == post(r)

\* the callback Request::send hands to connect
connect_cb(r, ec) ==
    IF ec = Success THEN post(r) ELSE terminate(r, "not_connected")

\* the completion handler Request::connect hands to async_connect: on
\* success conn_->set_endpoint (which only records the peer address), then
\* the callback
on_connect(r, ec) ==
    IF ec = Success /\ r.conn_ = 0 THEN null_conn(r)
    ELSE connect_cb(r, ec)

\* Connection::close: socket_.close(); the timer is left alone
close(r) == [r EXCEPT !.open = FALSE]

\* Request::end: conn_.reset()
end(r) == [r EXCEPT !.conn_ = 0, !.open = FALSE]

\* Request::connect with the callback send hands to it: with no endpoint the
\* callback gets connection_aborted at once; otherwise a new Connection
\* (id ids_++, empty buffers) replaces conn_ and async_connect, which opens
\* the socket, is started
connect(r, endpoints) ==
    IF endpoints = 0 THEN connect_cb(r, "connection_aborted")
    ELSE async_op([r EXCEPT !.conn_ = r.ids_, !.ids_ = @ + 1,
                            !.open = TRUE, !.read_buf = <<>>],
                  "connect", 0, <<>>)

\* a send callback that connects whether or not a Connection is open
send_cb_always_connect(r, ec, endpoints) ==
    IF ec # Success THEN terminate(r, "connection_aborted")
    ELSE connect(r, endpoints)

\* the callback Request::send registers with the Resolver
send_cb(r, ec, endpoints) ==
    IF ec # Success THEN terminate(r, "connection_aborted")
    ELSE IF r.conn_ = 0 \/ ~r.open THEN connect(r, endpoints)
    ELSE post(r)

\* ------------------------------------------------------------ the peer
\* What the server does with every request it receives: nothing at all
\* (silent: it accepts and closes), or a response with status line, an
\* optional Content-Length, an optional Connection: keep-alive and `body`
\* body bytes.  It closes once the client waits for more than it sent.
Servers ==
    {[silent |-> TRUE, status |-> 200, content_length |-> -1,
      keep_alive |-> FALSE, body |-> 0]}
    \cup [silent : {FALSE}, status : {200, 404},
          content_length : -1..MaxLength, keep_alive : BOOLEAN,
          body : 0..MaxBody]

Response == <<0>> \o Bytes(srv.body)

\* ------------------------------------------------------ initial states
\* Request::Request: the first constructor starts a resolution (pending),
\* the third one wraps a pre-resolved endpoint set (completed, no error).
\* connection_type_ is what set_connection_type left before send(); the
\* exchange does not depend on headers_ and body_, which start empty.
\* cbs_ tells which callbacks the caller registered (the exchange is
\* observed through on_state_change); cbs_mutex_ is free between calls.
NewRequest(connection_type) ==
    [connection_type_ |-> connection_type,
     headers_ |-> NoFields, body_ |-> <<>>, exception |-> "",
     fate |-> "none", ub |-> "", crashed |-> FALSE,
     conn_ |-> 0, ids_ |-> 1, open |-> FALSE, read_buf |-> <<>>,
     op |-> NoOp,
     response_ |-> [status_code |-> 0, headers |-> NoHeaders, body |-> <<>>],
     parser_ |-> [state |-> "start", left |-> 0],
     wraps |-> 0, appends |-> 0, request_ |-> <<>>,
     cbs_mutex_ |-> "free",
     cbs_ |-> [on_state_change |-> TRUE, on_status |-> FALSE,
               on_body |-> FALSE],
     notes |-> <<>>, dones |-> 0, after_done |-> FALSE,
     out_of_turn |-> FALSE, last |-> "", term_ec |-> "", sends |-> 0,
     terms |-> 0, first_status |-> 0]

InitRequest ==
    /\ rq \in {NewRequest(c) : c \in ConnectionTypes}
    /\ srv \in Servers
    /\ wire = <<>>
    /\ peer = "none"
    /\ io = <<>>
    /\ timers = NoTimers

InitThreads ==
    /\ mutex_ = "free"
    /\ pc = <<>>
    /\ next_cb = 1
    /\ reg = <<>>
    /\ local_cbs = <<>>
    /\ result = <<>>
    /\ calls = <<>>

Init ==
    /\ InitRequest
    /\ InitThreads
    /\ resolver \in [completed_ : {FALSE}, ec_ : {Success}, endpoints_ : {0},
                     cbs_ : {<<>>}]
                    \cup [completed_ : {TRUE}, ec_ : {Success},
                          endpoints_ : {0, 1}, cbs_ : {<<>>}]

\* ---------------------------------------------- actions of the Request
Event(op, ec, n) == [op |-> op, ec |-> ec, n |-> n]

\* Request::send with Resolver::add_callback: called when the Request has
\* no exchange in flight
send ==
    /\ ~rq.crashed
    /\ rq.op.kind = "none"
    /\ resolver.cbs_ = <<>>
    /\ rq.sends < MaxSends
    /\ LET r1 == notify_state_change(
                     [rq EXCEPT !.notes = <<>>, !.sends = @ + 1,
                                !.exception = "", !.fate = "none",
                                !.ub = ""], "CREATED")
       IN  IF ~resolver.completed_
           THEN /\ resolver' = [resolver EXCEPT !.cbs_ = Append(@, "send")]
                /\ rq' = r1
                /\ io' = <<>>
           ELSE /\ rq' = send_cb(r1, resolver.ec_, resolver.endpoints_)
                /\ io' = <<Event("resolve", resolver.ec_, resolver.endpoints_)>>
                /\ UNCHANGED resolver
    /\ UNCHANGED <<srv, wire, peer>>
    /\ UNCHANGED <<thrVars, timers>>

\* what a resolution can end with: (ec, number of endpoints)
Resolutions == {<<Success, 0>>, <<Success, 1>>, <<"host_not_found", 0>>}

\* the queued callbacks of the Resolver, invoked in turn on the Request
RECURSIVE run_cbs(_, _, _, _)
run_cbs(r, cbs, ec, endpoints) ==
    IF cbs = <<>> \/ r.exception # "" THEN r
    ELSE run_cbs(send_cb(r, ec, endpoints), Tail(cbs), ec, endpoints)

\* the completion handler of async_resolve (Resolver::resolve), on the
\* reactor thread
resolve ==
    /\ ~rq.crashed
    /\ ~resolver.completed_
    /\ \E res \in Resolutions :
        /\ resolver' = [completed_ |-> TRUE, ec_ |-> res[1],
                        endpoints_ |-> res[2], cbs_ |-> <<>>]
        /\ rq' = run_cbs(rq, resolver.cbs_, res[1], res[2])
        /\ io' = IF resolver.cbs_ = <<>> THEN io
                 ELSE Append(io, Event("resolve", res[1], res[2]))
    /\ UNCHANGED <<srv, wire, peer>>
    /\ UNCHANGED <<thrVars, timers>>

\* what the completion action draws for a handler that runs into
\* undefined behaviour: with conn_ null the handler's conn_-> is one
Fates == IF rq.conn_ = 0 THEN {"crash", "unnoticed"} ELSE {"none"}

\* How an async_connect can end: (ec, socket left open, fate).  After a
\* failure on all endpoints the socket may be left open or closed.  A
\* socket the caller closed meanwhile stays closed and the connect ends
\* with operation_aborted; after end() it ends so too, unless another
\* owner kept the Connection and the connect succeeded: the handler then
\* calls conn_->set_endpoint with conn_ null.
ConnectOutcomes ==
    IF rq.conn_ = 0
    THEN {<<"operation_aborted", FALSE, "none">>, <<Success, FALSE, "crash">>,
          <<Success, FALSE, "unnoticed">>}
    ELSE IF ~rq.open THEN {<<"operation_aborted", FALSE, "none">>}
    ELSE {<<Success, TRUE, "none">>, <<"connection_refused", TRUE, "none">>,
          <<"connection_refused", FALSE, "none">>}

\* the completion of async_connect (Request::connect)
connect_done ==
    /\ ~rq.crashed
    /\ rq.op.kind = "connect"
    /\ \E out \in ConnectOutcomes :
        LET ec == out[1]
        IN
        /\ rq' = on_connect([rq EXCEPT !.op = NoOp, !.open = out[2],
                                       !.fate = out[3]], ec)
        /\ peer' = IF ec # Success THEN "none"
                   ELSE IF srv.silent THEN "closed" ELSE "up"
        /\ io' = Append(io, Event("connect", ec, 0))
    /\ wire' = <<>>
    /\ UNCHANGED <<resolver, srv>>
    /\ UNCHANGED <<thrVars, timers>>

\* what a write can end with, by the state of the socket and of the peer
WriteResults ==
    IF rq.conn_ = 0 \/ ~rq.open THEN {Success, "operation_aborted"}
    ELSE IF peer = "up" THEN {Success, "broken_pipe", "operation_aborted"}
    ELSE IF peer = "closed" THEN {Success, "broken_pipe"}
    ELSE {"broken_pipe"}

\* the completion of async_write (Request::post): handle_request.  A peer
\* that is up answers a request it received.
write_done ==
    /\ ~rq.crashed
    /\ rq.op.kind = "write"
    /\ \E ec \in WriteResults, fate \in Fates :
        /\ rq' = handle_request([rq EXCEPT !.op = NoOp, !.fate = fate], ec)
        /\ wire' = IF ec = Success /\ peer = "up" THEN wire \o Response
                   ELSE wire
        /\ peer' = IF ec = "broken_pipe" /\ peer = "up" THEN "closed" ELSE peer
        /\ io' = Append(io, Event("write", ec, 0))
    /\ UNCHANGED <<resolver, srv>>
    /\ UNCHANGED <<thrVars, timers>>

\* errors a read can end with besides end-of-file
ReadErrors == {"connection_reset", "operation_aborted"}

\* a read that ends with an error: nothing is delivered
read_failed(r, ec) ==
    IF r.op.kind = "read_until" THEN handle_response_header([r EXCEPT !.op = NoOp], ec, 0)
    ELSE handle_response_body([r EXCEPT !.op = NoOp], ec, 0, r.op.chunk)

\* the completion of async_read_until(socket, data(), "\r\n\r\n"):
\* handle_response_header.  n tokens arrive; the read ends with the read
\* that brings the delimiter, which may bring later bytes too, and with
\* end-of-file when the peer sent no delimiter.
read_until_done ==
    /\ ~rq.crashed
    /\ rq.op.kind = "read_until"
    /\ \E fate \in Fates :
       \/ \E n \in 0..Len(wire) :
            LET buf == rq.read_buf \o SubSeq(wire, 1, n)
            IN  /\ find_delim(buf, 1) # 0
                /\ n > 0 => find_delim(rq.read_buf, 1) = 0
                /\ rq' = handle_response_header(
                             [rq EXCEPT !.op = NoOp, !.fate = fate,
                                        !.read_buf = buf],
                             Success, find_delim(buf, 1))
                /\ wire' = SubSeq(wire, n + 1, Len(wire))
                /\ peer' = peer
                /\ io' = Append(io, Event("read_until", Success, n))
       \/ /\ find_delim(rq.read_buf \o wire, 1) = 0
          /\ rq' = handle_response_header(
                       [rq EXCEPT !.op = NoOp, !.fate = fate,
                                  !.read_buf = @ \o wire], "eof", 0)
          /\ wire' = <<>>
          /\ peer' = "closed"
          /\ io' = Append(io, Event("read_until", "eof", Len(wire)))
       \/ \E ec \in ReadErrors :
            /\ rq' = read_failed([rq EXCEPT !.fate = fate], ec)
            /\ wire' = wire
            /\ peer' = IF ec = "connection_reset" THEN "closed" ELSE peer
            /\ io' = Append(io, Event("read_until", ec, 0))
    /\ UNCHANGED <<resolver, srv>>
    /\ UNCHANGED <<thrVars, timers>>

\* the completion of async_read(socket, data(), transfer_at_least(1)) when
\* op.exactly = 0 and of transfer_exactly(op.exactly) otherwise:
\* handle_response_body with the chunk bound into the handler
read_done ==
    /\ ~rq.crashed
    /\ rq.op.kind = "read"
    /\ \E fate \in Fates :
       \/ \E n \in 1..Len(wire) :
            /\ rq.op.exactly # 0 => n = rq.op.exactly
            /\ rq' = handle_response_body(
                         [rq EXCEPT !.op = NoOp, !.fate = fate,
                                    !.read_buf = @ \o SubSeq(wire, 1, n)],
                         Success, n, rq.op.chunk)
            /\ wire' = SubSeq(wire, n + 1, Len(wire))
            /\ peer' = peer
            /\ io' = Append(io, Event("read", Success, n))
       \/ /\ Len(wire) < (IF rq.op.exactly = 0 THEN 1 ELSE rq.op.exactly)
          /\ rq' = handle_response_body(
                       [rq EXCEPT !.op = NoOp, !.fate = fate,
                                  !.read_buf = @ \o wire],
                       "eof", Len(wire), rq.op.chunk)
          /\ wire' = <<>>
          /\ peer' = "closed"
          /\ io' = Append(io, Event("read", "eof", Len(wire)))
       \/ \E ec \in ReadErrors :
            /\ rq' = read_failed([rq EXCEPT !.fate = fate], ec)
            /\ wire' = wire
            /\ peer' = IF ec = "connection_reset" THEN "closed" ELSE peer
            /\ io' = Append(io, Event("read", ec, 0))
    /\ UNCHANGED <<resolver, srv>>
    /\ UNCHANGED <<thrVars, timers>>

\* pending waits of the timer end with operation_aborted: their handlers
\* are queued with that error
cancel_waits(t) ==
    [t EXCEPT !.armed = [i \in 1..Len(t.armed) |->
                            IF t.armed[i].wait = "pending"
                            THEN [t.armed[i] EXCEPT !.wait = "cancelled"]
                            ELSE t.armed[i]]]

\* the caller closes the Connection it got from get_connection():
\* Connection::close.  What the socket had not read is dropped and the
\* peer is no longer connected; io records the call when an operation is
\* in flight.
call_close ==
    /\ ~rq.crashed
    /\ rq.conn_ # 0
    /\ rq.open
    /\ rq' = close(rq)
    /\ io' = IF rq.op.kind = "none" THEN io
             ELSE Append(io, Event("close", "closed", 0))
    /\ wire' = <<>>
    /\ peer' = IF peer = "up" THEN "closed" ELSE peer
    /\ UNCHANGED <<resolver, srv, timers>>
    /\ UNCHANGED thrVars

\* the caller ends the Request: Request::end.  The Connection, unless it
\* has another owner, is destroyed with its timer.
call_end ==
    /\ ~rq.crashed
    /\ rq.conn_ # 0
    /\ rq' = end(rq)
    /\ io' = IF rq.op.kind = "none" THEN io
             ELSE Append(io, Event("end", "released", 0))
    /\ timers' = cancel_waits(timers)
    /\ wire' = <<>>
    /\ peer' = IF peer = "up" THEN "closed" ELSE peer
    /\ UNCHANGED <<resolver, srv>>
    /\ UNCHANGED thrVars

Next ==
    \/ send
    \/ resolve
    \/ connect_done
    \/ write_done
    \/ read_until_done
    \/ read_done

Spec == Init /\ [][Next]_vars

\* The exchange with a caller that may close the Connection or end the
\* Request at any moment, for the servers that answer 200 and a Resolver
\* that is pending or holds one endpoint.
InitClose ==
    /\ InitRequest
    /\ InitThreads
    /\ srv.status = 200
    /\ resolver \in {[completed_ |-> FALSE, ec_ |-> Success, endpoints_ |-> 0,
                      cbs_ |-> <<>>],
                     [completed_ |-> TRUE, ec_ |-> Success, endpoints_ |-> 1,
                      cbs_ |-> <<>>]}

NextClose ==
    \/ Next
    \/ call_close
    \/ call_end

CloseSpec == InitClose /\ [][NextClose]_vars

\* every operation the Request started completes: the reactor runs
FairSpec ==
    /\ Spec
    /\ WF_vars(resolve)
    /\ WF_vars(connect_done)
    /\ WF_vars(write_done)
    /\ WF_vars(read_until_done)
    /\ WF_vars(read_done)

\* ------------------------------------------- the Resolver under threads
\* Threads: the callers of add_callback, the reactor thread "io" that runs
\* the async_resolve completion handler, and "owner", which destroys the
\* Resolver.  A callback is a number; calls[cb] records its invocations.
Callers == {"t1", "t2"}

Threads == Callers \cup {"io", "owner"}

Invocation(ec, endpoints, by) == [ec |-> ec, endpoints |-> endpoints, by |-> by]

\* the Resolver is pending (first constructor) or built from a resolved
\* endpoint set (second constructor); no Request exchange runs
InitResolver ==
    /\ rq = NewRequest("close")
    /\ srv \in {x \in Servers : x.silent}
    /\ wire = <<>>
    /\ peer = "none"
    /\ io = <<>>
    /\ timers = NoTimers
    /\ mutex_ = "free"
    /\ next_cb = 1
    /\ reg = [t \in Callers |-> 0]
    /\ local_cbs = [t \in {"io", "owner"} |-> <<>>]
    /\ result = <<Success, 0>>
    /\ calls = <<>>
    /\ \/ /\ resolver = [completed_ |-> FALSE, ec_ |-> Success,
                          endpoints_ |-> 0, cbs_ |-> <<>>]
          /\ pc = [t \in Threads |->
                     IF t = "io" THEN "pending"
                     ELSE IF t = "owner" THEN "alive" ELSE "idle"]
       \/ /\ resolver = [completed_ |-> TRUE, ec_ |-> Success,
                          endpoints_ |-> 1, cbs_ |-> <<>>]
          /\ pc = [t \in Threads |->
                     IF t = "io" THEN "done"
                     ELSE IF t = "owner" THEN "alive" ELSE "idle"]

\* cb is invoked with (ec, endpoints) by thread t
invoke(cb, ec, endpoints, t) ==
    calls' = [calls EXCEPT ![cb] = Append(@, Invocation(ec, endpoints, t))]

\* Resolver::add_callback: std::lock_guard lock(mutex_), by thread t with a
\* new callback
add_callback_lock(t) ==
    /\ pc[t] = "idle"
    /\ pc["owner"] = "alive"
    /\ next_cb <= MaxCallbacks
    /\ mutex_ = "free"
    /\ mutex_' = t
    /\ pc' = [pc EXCEPT ![t] = "add"]
    /\ reg' = [reg EXCEPT ![t] = next_cb]
    /\ next_cb' = next_cb + 1
    /\ calls' = Append(calls, <<>>)
    /\ UNCHANGED <<resolver, local_cbs, result>>
    /\ UNCHANGED reqVars

\* add_callback that queues the callback whether or not the resolution
\* has completed
add_callback_always_queue(t) ==
    /\ pc[t] = "add"
    /\ resolver' = [resolver EXCEPT !.cbs_ = Append(@, reg[t])]
    /\ UNCHANGED calls
    /\ mutex_' = "free"
    /\ pc' = [pc EXCEPT ![t] = "idle"]
    /\ UNCHANGED <<next_cb, reg, local_cbs, result>>
    /\ UNCHANGED reqVars

\* Resolver::add_callback under the lock: queue the callback, or invoke
\* it with the cached result; the lock is released on return
add_callback(t) ==
    /\ pc[t] = "add"
    /\ IF ~resolver.completed_
       THEN /\ resolver' = [resolver EXCEPT !.cbs_ = Append(@, reg[t])]
            /\ UNCHANGED calls
       ELSE /\ invoke(reg[t], resolver.ec_, resolver.endpoints_, t)
            /\ UNCHANGED resolver
    /\ mutex_' = "free"
    /\ pc' = [pc EXCEPT ![t] = "idle"]
    /\ UNCHANGED <<next_cb, reg, local_cbs, result>>
    /\ UNCHANGED reqVars

\* the async_resolve handler is called with (ec, endpoints) and takes the
\* lock
resolve_lock ==
    /\ pc["io"] = "pending"
    /\ pc["owner"] # "destroyed"
    /\ mutex_ = "free"
    /\ \E res \in Resolutions : result' = res
    /\ mutex_' = "io"
    /\ pc' = [pc EXCEPT !["io"] = "locked"]
    /\ UNCHANGED <<resolver, next_cb, reg, local_cbs, calls>>
    /\ UNCHANGED reqVars

\* under the lock: ec_ = ec; endpoints_ = endpoints; completed_ = true;
\* cbs = std::move(cbs_)
resolve_store ==
    /\ pc["io"] = "locked"
    /\ resolver' = [completed_ |-> TRUE, ec_ |-> result[1],
                    endpoints_ |-> result[2], cbs_ |-> <<>>]
    /\ local_cbs' = [local_cbs EXCEPT !["io"] = resolver.cbs_]
    /\ mutex_' = "free"
    /\ pc' = [pc EXCEPT !["io"] = "invoke"]
    /\ UNCHANGED <<next_cb, reg, result, calls>>
    /\ UNCHANGED reqVars

\* a completion handler that takes the callbacks from the back of the
\* queue
resolve_invoke_lifo ==
    /\ pc["io"] = "invoke"
    /\ IF local_cbs["io"] = <<>>
       THEN /\ pc' = [pc EXCEPT !["io"] = "done"]
            /\ UNCHANGED <<local_cbs, calls>>
       ELSE /\ invoke(Last(local_cbs["io"]), result[1], result[2], "io")
            /\ local_cbs' = [local_cbs EXCEPT !["io"] =
                                SubSeq(@, 1, Len(@) - 1)]
            /\ UNCHANGED pc
    /\ UNCHANGED <<resolver, mutex_, next_cb, reg, result>>
    /\ UNCHANGED reqVars

\* while (not cbs.empty()): cb(ec, endpoints); cbs.pop()
resolve_invoke ==
    /\ pc["io"] = "invoke"
    /\ IF local_cbs["io"] = <<>>
       THEN /\ pc' = [pc EXCEPT !["io"] = "done"]
            /\ UNCHANGED <<local_cbs, calls>>
       ELSE /\ invoke(Head(local_cbs["io"]), result[1], result[2], "io")
            /\ local_cbs' = [local_cbs EXCEPT !["io"] = Tail(@)]
            /\ UNCHANGED pc
    /\ UNCHANGED <<resolver, mutex_, next_cb, reg, result>>
    /\ UNCHANGED reqVars

\* Resolver::~Resolver takes the lock; no add_callback is in progress on
\* an object that is being destroyed
destroy_lock ==
    /\ pc["owner"] = "alive"
    /\ \A t \in Callers : pc[t] = "idle"
    /\ mutex_ = "free"
    /\ mutex_' = "owner"
    /\ pc' = [pc EXCEPT !["owner"] = "locked"]
    /\ UNCHANGED <<resolver, next_cb, reg, local_cbs, result, calls>>
    /\ UNCHANGED reqVars

\* a destructor that copies the queue and leaves cbs_ as it was
destroy_copy ==
    /\ pc["owner"] = "locked"
    /\ local_cbs' = [local_cbs EXCEPT !["owner"] = resolver.cbs_]
    /\ UNCHANGED resolver
    /\ mutex_' = "free"
    /\ pc' = [pc EXCEPT !["owner"] = "invoke"]
    /\ UNCHANGED <<next_cb, reg, result, calls>>
    /\ UNCHANGED reqVars

\* under the lock: cbs = std::move(cbs_)
destroy_move ==
    /\ pc["owner"] = "locked"
    /\ local_cbs' = [local_cbs EXCEPT !["owner"] = resolver.cbs_]
    /\ resolver' = [resolver EXCEPT !.cbs_ = <<>>]
    /\ mutex_' = "free"
    /\ pc' = [pc EXCEPT !["owner"] = "invoke"]
    /\ UNCHANGED <<next_cb, reg, result, calls>>
    /\ UNCHANGED reqVars

\* while (not cbs.empty()): cb(operation_aborted, {}); cbs.pop(); then the
\* members are destroyed
destroy_invoke ==
    /\ pc["owner"] = "invoke"
    /\ IF local_cbs["owner"] = <<>>
       THEN /\ pc' = [pc EXCEPT !["owner"] = "destroyed"]
            /\ UNCHANGED <<local_cbs, calls>>
       ELSE /\ invoke(Head(local_cbs["owner"]), "operation_aborted", 0, "owner")
            /\ local_cbs' = [local_cbs EXCEPT !["owner"] = Tail(@)]
            /\ UNCHANGED pc
    /\ UNCHANGED <<resolver, mutex_, next_cb, reg, result>>
    /\ UNCHANGED reqVars

\* Destroying resolver_ cancels the pending async_resolve; its handler is
\* then called with operation_aborted and uses the destroyed Resolver
\* through its dangling `this`.  That is undefined behaviour: the handler
\* either crashes the process or runs over the freed members, where the
\* queue the destructor moved from holds no callback.
resolve_dangling ==
    /\ pc["io"] = "pending"
    /\ pc["owner"] = "destroyed"
    /\ result' = <<"operation_aborted", 0>>
    /\ \E outcome \in {"done", "crashed"} :
          pc' = [pc EXCEPT !["io"] = outcome]
    /\ UNCHANGED <<resolver, mutex_, next_cb, reg, local_cbs, calls>>
    /\ UNCHANGED reqVars

NextResolver ==
    \/ \E t \in Callers : add_callback_lock(t)
    \/ \E t \in Callers : add_callback(t)
    \/ resolve_lock
    \/ resolve_store
    \/ resolve_invoke
    \/ destroy_lock
    \/ destroy_move
    \/ destroy_invoke
    \/ resolve_dangling

ResolverSpec == InitResolver /\ [][NextResolver]_vars

\* ------------------------------------------------ the Connection's timer
\* timers.armed lists the waits started on timeout_timer_, one per
\* Connection::timeout call that armed it: cb is the callback handed over
\* (callbacks are numbered in the order of the calls) and wait is
\*   "pending"   : waiting for the expiry,
\*   "expired"   : the expiry came, the handler is queued with no error,
\*   "cancelled" : the wait was cancelled, the handler is queued with
\*                 operation_aborted,
\*   "fired", "dropped" : the handler has run, from "expired" and from
\*                 "cancelled".
\* timers.invoked lists the callback invocations (cb, ec) in order and
\* timers.refused the callbacks handed to a timeout that did not arm.

\* Connection::timeout(timeout, cb) with cb the callback number t.next.
\* expires_at cancels the pending wait, async_wait starts a new one.
timeout(r, t) ==
    IF ~r.open THEN [t EXCEPT !.refused = @ \cup {t.next}, !.next = @ + 1]
    ELSE [cancel_waits(t) EXCEPT
             !.armed = Append(@, [cb |-> t.next, wait |-> "pending"]),
             !.next = @ + 1]

\* the wait handler without its test for operation_aborted
on_wait_no_abort_test(t, i, ec) ==
    [t EXCEPT !.armed[i].wait = IF ec = "operation_aborted" THEN "dropped"
                                ELSE "fired",
              !.invoked = Append(@, [cb |-> t.armed[i].cb, ec |-> ec])]

\* the handler Connection::timeout hands to async_wait, for the wait i:
\* it returns on operation_aborted and otherwise calls cb(ec)
on_wait(t, i, ec) ==
    IF ec = "operation_aborted" THEN [t EXCEPT !.armed[i].wait = "dropped"]
    ELSE [t EXCEPT !.armed[i].wait = "fired",
                   !.invoked = Append(@, [cb |-> t.armed[i].cb, ec |-> ec])]

\* a Connection, connected or not, owned by a Request at rest
InitTimer ==
    /\ \E open \in BOOLEAN :
          rq = [NewRequest("close") EXCEPT !.conn_ = 1, !.ids_ = 2,
                                          !.open = open]
    /\ srv \in {x \in Servers : x.silent}
    /\ wire = <<>>
    /\ peer = "none"
    /\ io = <<>>
    /\ timers = NoTimers
    /\ resolver = [completed_ |-> TRUE, ec_ |-> Success, endpoints_ |-> 1,
                   cbs_ |-> <<>>]
    /\ InitThreads

\* the caller arms the timer of the Connection it holds
call_timeout ==
    /\ rq.conn_ # 0
    /\ timers.next <= MaxArmings
    /\ timers' = timeout(rq, timers)
    /\ UNCHANGED <<rq, resolver, srv, wire, peer, io>>
    /\ UNCHANGED thrVars

\* the expiry time of the pending wait comes
timer_expire ==
    /\ \E i \in 1..Len(timers.armed) :
          /\ timers.armed[i].wait = "pending"
          /\ timers' = [timers EXCEPT !.armed[i].wait = "expired"]
    /\ UNCHANGED <<rq, resolver, srv, wire, peer, io>>
    /\ UNCHANGED thrVars

\* the reactor runs a queued wait handler
timer_handler ==
    /\ \E i \in 1..Len(timers.armed) :
          /\ timers.armed[i].wait \in {"expired", "cancelled"}
          /\ timers' = on_wait(timers, i,
                               IF timers.armed[i].wait = "cancelled"
                               THEN "operation_aborted" ELSE Success)
    /\ UNCHANGED <<rq, resolver, srv, wire, peer, io>>
    /\ UNCHANGED thrVars

NextTimer ==
    \/ call_timeout
    \/ timer_expire
    \/ timer_handler
    \/ call_close
    \/ call_end

TimerSpec == InitTimer /\ [][NextTimer]_vars

\* ------------------------------------------------ the Request's builder
\* A Request before send(): its setters and build() called in any order.
\* io keeps the most recent set_body call, with the body as n, and the
\* most recent call.
InitBuild ==
    /\ rq \in {NewRequest(c) : c \in ConnectionTypes}
    /\ srv \in {x \in Servers : x.silent}
    /\ wire = <<>>
    /\ peer = "none"
    /\ io = <<>>
    /\ timers = NoTimers
    /\ resolver = [completed_ |-> FALSE, ec_ |-> Success, endpoints_ |-> 0,
                   cbs_ |-> <<>>]
    /\ InitThreads

BodySet == SelectSeq(io, LAMBDA e : e.op = "set_body")

call_set_header_field ==
    /\ \E i \in 1..Len(HeaderFields), value \in HeaderValues :
          rq' = set_header_field(rq, HeaderFields[i], value)
    /\ io' = BodySet \o <<Event("set_header_field", Success, 0)>>
    /\ UNCHANGED <<resolver, srv, wire, peer>>
    /\ UNCHANGED <<thrVars, timers>>

call_set_connection_type ==
    /\ \E connection \in ConnectionTypes :
          rq' = set_connection_type(rq, connection)
    /\ io' = BodySet \o <<Event("set_connection_type", Success, 0)>>
    /\ UNCHANGED <<resolver, srv, wire, peer>>
    /\ UNCHANGED <<thrVars, timers>>

call_set_body ==
    /\ \E body \in Bodies :
          /\ rq' = set_body(rq, body)
          /\ io' = <<Event("set_body", Success, body)>>
    /\ UNCHANGED <<resolver, srv, wire, peer>>
    /\ UNCHANGED <<thrVars, timers>>

call_build ==
    /\ LET b == build([rq EXCEPT !.exception = ""])
       IN /\ rq' = b
          /\ io' = BodySet
                    \o <<Event("build", IF b.exception = "" THEN Success
                                        ELSE b.exception, 0)>>
    /\ UNCHANGED <<resolver, srv, wire, peer>>
    /\ UNCHANGED <<thrVars, timers>>

NextBuild ==
    \/ call_set_header_field
    \/ call_set_connection_type
    \/ call_set_body
    \/ call_build

BuildSpec == InitBuild /\ [][NextBuild]_vars

\* ================================================================ claims
\* the states notified during the current send(), in order
States == [i \in 1..Len(rq.notes) |-> rq.notes[i].state]

\* the current send() has been notified of DONE
Done == rq.notes # <<>> /\ Last(rq.notes).state = "DONE"

IsPrefix(s, t) == Len(s) <= Len(t) /\ SubSeq(t, 1, Len(s)) = s

\* some completion of the current send() was (op, ec)
Completed(op, ec) == \E i \in 1..Len(io) : io[i].op = op /\ io[i].ec = ec

\* no completion of the current send() ended with an error other than
\* end-of-file
NoFailure == \A i \in 1..Len(io) : io[i].ec \in {Success, "eof"}

\* the server answered the current send(): its header block was read
Answered == Completed("read_until", Success)

\* the caller neither closed the Connection nor ended the Request while
\* an operation of the current send() was in flight
Undisturbed == \A i \in 1..Len(io) : io[i].op \notin {"close", "end"}

C2_NeverStalls ==
    (rq.notes # <<>> /\ rq.op.kind = "none" /\ resolver.cbs_ = <<>>) => Done

\* C2 as a temporal formula, for FairSpec (the resolution and every
\* started I/O operation complete): every send() is eventually notified
\* of DONE.
C2_EventuallyDone == (rq.notes # <<>>) ~> Done

\* the status terminate(ec) is to leave
TerminateStatus(ec) ==
    IF ec \in {Success, "eof", "operation_aborted"} THEN 200 ELSE 0

\* C3: at every DONE notification the response snapshot carries, and the
\* response keeps, the status terminate derives from its error code: 200
\* for no-error, end-of-file and operation-aborted, 0 for any other
\* error, whatever the parser had recorded.
C3_TerminateStatus ==
    Done => /\ Last(rq.notes).status = TerminateStatus(rq.term_ec)
            /\ rq.response_.status_code = TerminateStatus(rq.term_ec)

\* the parser had recorded 404 (seen at HEADER_RECEIVED) and terminate
\* replaced it by 200
C3_Witness ==
    /\ Done
    /\ Last(rq.notes).status = 200
    /\ \E i \in 1..Len(rq.notes) :
          rq.notes[i].state = "HEADER_RECEIVED" /\ rq.notes[i].status = 404

\* Scenario A: directive close, the server answers with a Content-Length
\* of n >= 1 and exactly n body bytes, nothing fails
ScenarioA ==
    /\ rq.connection_type_ = "close"
    /\ ~srv.silent
    /\ srv.content_length >= 1
    /\ srv.body = srv.content_length
    /\ Answered
    /\ NoFailure

ScenarioASeq ==
    <<"CREATED", "SENDING", "RECEIVING", "HEADER_RECEIVED", "RECEIVING", "DONE">>

\* C6: in scenario A, however the bytes are split across reads, the
\* notifications are a prefix of CREATED, SENDING, RECEIVING,
\* HEADER_RECEIVED, RECEIVING, DONE; the exchange never rests before DONE
\* and at DONE the sequence is complete and the status is 200.
C6_ScenarioASequence ==
    ScenarioA =>
        /\ IsPrefix(States, ScenarioASeq)
        /\ rq.op.kind = "none" => Done
        /\ Done => States = ScenarioASeq /\ Last(rq.notes).status = 200

\* scenario A ended with the body split over two body reads
C6_Witness ==
    /\ ScenarioA
    /\ Done
    /\ Cardinality({i \in 1..Len(io) :
                       io[i].op = "read" /\ io[i].ec = Success}) >= 2

\* C7: when the response declares Content-Length n >= 1 and the server
\* delivers exactly n body bytes, the response body at DONE is those n
\* bytes, each once.
C7_BodyAtDone ==
    ( /\ ~srv.silent
      /\ srv.content_length >= 1
      /\ srv.body = srv.content_length
      /\ Answered
      /\ NoFailure
      /\ Done )
    => Last(rq.notes).body = Bytes(srv.body)

\* the body bytes of the current send() the socket has read so far
RECURSIVE Received(_)
Received(i) ==
    IF i = 0 THEN 0
    ELSE Received(i - 1)
         + (IF io[i].op = "read" THEN io[i].n
            ELSE IF io[i].op = "read_until" /\ io[i].n > 0 THEN io[i].n - 1
            ELSE 0)

\* C8: when the response declares Content-Length n and the server sends
\* k bytes, 0 < k < n, and closes (on the first send() of a Request, whose
\* response body starts empty): once the k bytes are in, the pending
\* read asks for exactly n - k bytes; it ends with end-of-file and DONE is
\* notified with status 200 and the k received bytes as the body.
C8_ShortBody ==
    ( /\ ~srv.silent
      /\ srv.body > 0
      /\ srv.body < srv.content_length
      /\ rq.sends = 1
      /\ Answered
      /\ NoFailure )
    => /\ (rq.op.kind = "read" /\ Received(Len(io)) = srv.body)
            => rq.op.exactly = srv.content_length - srv.body
       /\ Done => /\ Last(io).op = "read" /\ Last(io).ec = "eof"
                  /\ Last(rq.notes).status = 200
                  /\ Last(rq.notes).body = Bytes(srv.body)

\* the resolution failed or gave no endpoint, or the connect failed
ConnectFailure ==
    \/ \E i \in 1..Len(io) :
          io[i].op = "resolve" /\ (io[i].ec # Success \/ io[i].n = 0)
    \/ Completed("connect", "connection_refused")

\* C9: when the resolution fails or yields no endpoint, or the connect
\* fails, the notifications of that send() are CREATED, DONE, the status
\* is 0, nothing is left pending and no request was built or written.
C9_ConnectFailure ==
    ConnectFailure =>
        /\ States = <<"CREATED", "DONE">>
        /\ Last(rq.notes).status = 0
        /\ rq.response_.status_code = 0
        /\ rq.op.kind = "none"
        /\ ~Completed("write", Success)
        /\ rq.sends = 1 => rq.request_ = <<>> /\ rq.wraps = 0

\* the connect failed on all endpoints
C9_Witness == Completed("connect", "connection_refused") /\ Done

\* the server accepted and closed without sending a byte: the header read
\* of the current send() ended with end-of-file and nothing read
SilentClose ==
    /\ srv.silent
    /\ Undisturbed
    /\ \E i \in 1..Len(io) :
          io[i].op = "read_until" /\ io[i].ec = "eof" /\ io[i].n = 0

\* C10: when the server accepts and closes without sending a byte, the
\* header read ends with end-of-file and DONE is notified with status 200
\* and an empty body, HEADER_RECEIVED is not notified.
C10_SilentClose ==
    /\ (srv.silent /\ rq.op.kind = "read_until") => wire = <<>>
    /\ SilentClose =>
          /\ Done
          /\ Last(rq.notes).status = 200
          /\ Last(rq.notes).body = <<>>
          /\ rq.response_.body = <<>>
          /\ \A i \in 1..Len(rq.notes) : rq.notes[i].state # "HEADER_RECEIVED"
          /\ States = <<"CREATED", "SENDING", "RECEIVING", "DONE">>

C10_Witness == SilentClose /\ Done /\ Completed("connect", Success)

\* ------------------------------------------------ claims: the Resolver
Registered == 1..(next_cb - 1)

\* no thread is inside add_callback and the completion handler has
\* returned
ResolverQuiet == pc["io"] = "done" /\ \A t \in Callers : pc[t] = "idle"

\* C4: for a Resolver whose resolution completes, every registered
\* callback is invoked at most once, only once the resolution has
\* completed and with the cached error and endpoints; when the completion
\* handler and every add_callback have returned, each callback has been
\* invoked exactly once.
C4_OncePerCallback ==
    /\ \A cb \in Registered : Len(calls[cb]) <= 1
    /\ \A cb \in Registered :
          (calls[cb] # <<>> /\ calls[cb][1].by # "owner") =>
              /\ resolver.completed_
              /\ calls[cb][1].ec = resolver.ec_
              /\ calls[cb][1].endpoints = resolver.endpoints_
    /\ (ResolverQuiet /\ pc["owner"] = "alive") =>
          \A cb \in Registered : Len(calls[cb]) = 1

\* all callbacks are registered and invoked: one at least by the
\* completion handler (registered before completion) and one at least
\* inside add_callback (registered after it)
C4_Witness ==
    /\ ResolverQuiet
    /\ pc["owner"] = "alive"
    /\ next_cb > MaxCallbacks
    /\ \E cb \in Registered : calls[cb] # <<>> /\ calls[cb][1].by = "io"
    /\ \E cb \in Registered : calls[cb] # <<>> /\ calls[cb][1].by \in Callers

\* C5: a callback the destructor invokes is invoked with operation_aborted
\* and no endpoint, once, and by nobody else; and once the Resolver is
\* destroyed with the completion handler not running, every registered
\* callback has been invoked exactly once, the completion handler that
\* runs afterwards adding no invocation.
C5_AbortedOnce ==
    /\ \A cb \in Registered :
          (\E i \in 1..Len(calls[cb]) : calls[cb][i].by = "owner") =>
              calls[cb] = <<Invocation("operation_aborted", 0, "owner")>>
    /\ pc["owner"] \in {"invoke", "destroyed"} => resolver.cbs_ = <<>>
    /\ (pc["owner"] = "destroyed" /\ pc["io"] \in {"pending", "done", "crashed"}) =>
          \A cb \in Registered : Len(calls[cb]) = 1

\* two queued callbacks were aborted by the destructor and the cancelled
\* completion handler has run after it
C5_Witness ==
    /\ pc["owner"] = "destroyed"
    /\ pc["io"] = "done"
    /\ result[1] = "operation_aborted"
    /\ Cardinality({cb \in Registered :
                       calls[cb] = <<Invocation("operation_aborted", 0, "owner")>>}) >= 2

\* ------------------------------------------------- claims: error paths
\* the header read or the body read of the current send() ended with
\* connection_reset, on a Connection the caller left alone
ResetRead ==
    /\ Undisturbed
    /\ \/ Completed("read_until", "connection_reset")
       \/ Completed("read", "connection_reset")

\* C11 as stated: when a header read or a body read ends with
\* connection_reset, DONE is notified with status 200, as for end-of-file.
C11_ResetAsEof ==
    ResetRead => Done /\ Last(rq.notes).status = 200

\* C11 amended: when a header read or a body read ends with
\* connection_reset the Request always terminates, nothing is left
\* pending, and DONE is notified with status 0: connection_reset is not
\* among the errors terminate turns into 200.
C11_ResetTerminates ==
    ResetRead =>
        /\ Done
        /\ rq.op.kind = "none"
        /\ rq.term_ec = "connection_reset"
        /\ Last(rq.notes).status = 0
        /\ rq.response_.status_code = 0

\* the peer reset the connection during the body read, after a header
\* block with status 200 had been parsed
C11_Witness ==
    /\ Completed("read", "connection_reset")
    /\ Done
    /\ \E i \in 1..Len(rq.notes) :
          rq.notes[i].state = "HEADER_RECEIVED" /\ rq.notes[i].status = 200

\* ---------------------------------------------------- claims: build()
\* the most recent call was op and it ended with ec
LastCall(op, ec) == io # <<>> /\ Last(io).op = op /\ Last(io).ec = ec

\* the positions of the Connection header lines in the request string
ConnectionLines ==
    {i \in 1..Len(rq.request_) :
        rq.request_[i].t = "line" /\ rq.request_[i].field = "Connection"}

\* after a build that returned: one Connection line, its value keep-alive
\* for the directive keep-alive and close otherwise, and a stored
\* directive that is close or keep-alive
C12_BuildAccepts ==
    LastCall("build", Success) =>
        /\ Cardinality(ConnectionLines) = 1
        /\ rq.connection_type_ \in {"close", "keep_alive"}
        /\ \A i \in ConnectionLines :
              rq.request_[i].value =
                  (IF rq.connection_type_ = "keep_alive" THEN "keep-alive"
                   ELSE "close")

\* a build called with the directive upgrade throws and leaves the
\* request string as it was; with any other directive it returns
C12_BuildRejects ==
    [][(io' # <<>> /\ Last(io').op = "build") =>
          IF rq.connection_type_ = "upgrade"
          THEN /\ rq'.exception = "invalid_argument"
               /\ rq'.request_ = rq.request_
          ELSE rq'.exception = ""]_vars

\* C12: for every set of registered header fields, a Connection field
\* registered by the caller included, and every directive, build() either
\* throws (directive upgrade) and leaves the request string unchanged, or
\* produces a request with exactly one Connection line, whose value is
\* keep-alive for the directive keep-alive and close otherwise, and
\* leaves the stored directive close or keep-alive.
C12_OneConnectionLine == []C12_BuildAccepts /\ C12_BuildRejects

\* the body most recently handed to set_body
CurrentBody == IF BodySet = <<>> THEN <<>> ELSE BodySet[1].n

\* what build wrote after the Connection line it adds
BuildTail ==
    LET k == CHOOSE i \in ConnectionLines :
                 \A j \in ConnectionLines : j <= i
    IN SubSeq(rq.request_, k + 1, Len(rq.request_))

\* C13: after any sequence of setter and build calls ending with a build
\* that returned, the request string ends, after the Connection line,
\* with a Content-Length line carrying the length of the body most
\* recently set, a blank line, that body and a final "\r\n" when that
\* body is not empty, and with the final "\r\n" alone (no Content-Length
\* line, no body) when it is empty.
C13_ContentLength ==
    LastCall("build", Success) =>
        /\ rq.body_ = CurrentBody
        /\ rq.request_[1] = Line("", "request-line", 0)
        /\ BuildTail =
              IF CurrentBody # <<>>
              THEN <<Line("Content-Length", "", Len(CurrentBody)), CRLF,
                     Body(CurrentBody), CRLF>>
              ELSE <<CRLF>>

\* a request built with a body of two bytes or more and a Content-Length
\* field the caller registered
C13_Witness ==
    /\ LastCall("build", Success)
    /\ Len(CurrentBody) >= 2
    /\ rq.headers_["Content-Length"] # NoValue
    /\ Last(rq.request_) = CRLF

\* ------------------------------------------- claims: reuse and order
\* C14: a send() on a Request that owns an open Connection and whose
\* Resolver has completed without error starts no resolution and creates
\* no Connection (resolver, conn_, the id counter and the open socket are
\* unchanged, no callback is queued); CREATED is notified and post() runs
\* at once: build, then SENDING and the write on that Connection (with
\* the directive upgrade build throws, as C12 says, and nothing is
\* started).
C14_ReuseConnection ==
    [][( /\ rq'.sends = rq.sends + 1
         /\ rq.conn_ # 0 /\ rq.open
         /\ resolver.completed_ /\ resolver.ec_ = Success )
       => /\ resolver' = resolver
          /\ rq'.conn_ = rq.conn_
          /\ rq'.ids_ = rq.ids_
          /\ rq'.open
          /\ io' = <<Event("resolve", Success, resolver.endpoints_)>>
          /\ IF rq.connection_type_ = "upgrade"
             THEN /\ rq'.exception = "invalid_argument"
                  /\ rq'.op.kind = "none"
                  /\ rq'.notes = <<[state |-> "CREATED",
                                    status |-> rq.response_.status_code,
                                    body |-> rq.response_.body]>>
             ELSE /\ rq'.exception = ""
                  /\ rq'.op.kind = "write"
                  /\ Len(rq'.notes) = 2
                  /\ rq'.notes[1].state = "CREATED"
                  /\ rq'.notes[2].state = "SENDING"
                  /\ Len(rq'.request_) > 0]_vars

\* the second send() wrote its request on the Connection the first one
\* opened, without a connect
C14_Witness ==
    /\ rq.sends = 2
    /\ rq.conn_ = 1 /\ rq.ids_ = 2
    /\ Len(io) >= 2
    /\ io[1].op = "resolve" /\ io[2].op = "write" /\ io[2].ec = Success
    /\ \A i \in 1..Len(io) : io[i].op # "connect"

\* C15: terminate is idempotent and the first termination wins: once
\* terminate has been invoked more than once on a Request, DONE has still
\* been notified once only and the response status is the one the first
\* invocation set.
C15_FirstTerminationWins ==
    rq.terms >= 2 =>
        /\ rq.dones = 1
        /\ rq.response_.status_code = rq.first_status

\* ------------------------------- claims: the caller closes or ends
\* position in io of the close() call made while an operation of the
\* current send() was in flight, 0 when there was none
ClosedAt ==
    IF \E i \in 1..Len(io) : io[i].op = "close"
    THEN CHOOSE i \in 1..Len(io) : io[i].op = "close"
    ELSE 0

\* C17: when the caller closes the Request's Connection while a connect,
\* a write, a header read or a body read is in flight (and does not end
\* the Request), that operation stays pending until its completion, and
\* its completion, whatever it reports, ends the exchange: DONE is
\* notified with status 0 (not_connected) and no read or write is
\* started after it.
C17_CloseTerminates ==
    (ClosedAt # 0 /\ \A i \in 1..Len(io) : io[i].op # "end") =>
        /\ ClosedAt = Len(io) => rq.op.kind # "none" /\ ~Done
        /\ ClosedAt < Len(io) =>
              /\ Len(io) = ClosedAt + 1
              /\ Done
              /\ rq.term_ec = "not_connected"
              /\ Last(rq.notes).status = 0
              /\ rq.response_.status_code = 0
              /\ rq.op.kind = "none"

\* the Connection was closed during a body read, which then ended with
\* end-of-file
C17_Witness ==
    /\ ClosedAt > 1
    /\ Len(io) = ClosedAt + 1
    /\ io[ClosedAt - 1].op = "read_until"
    /\ Last(io).op = "read" /\ Last(io).ec = "eof"
    /\ Done

\* C20: when the caller ends the Request while a write, a header read or
\* a body read is in flight, the completion handler that runs afterwards
\* does not go through the null conn_: there is no undefined behaviour,
\* the process does not crash, and the handler ends the exchange through
\* terminate.
C20_HandlerAfterEnd ==
    \A i \in 1..(Len(io) - 1) :
        (io[i].op = "end" /\ io[i + 1].op \in {"write", "read_until", "read"}) =>
            /\ rq.ub = ""
            /\ ~rq.crashed
            /\ Done

\* -------------------------------------------------- claims: the timer
\* C16: for Connection::timeout(duration, cb): no callback is invoked
\* with operation_aborted; the callback of a wait that was cancelled
\* before its expiry (by a later timeout call or with the Connection) is
\* never invoked; every callback is invoked at most once; only the
\* latest wait is still pending, so only it can still fire; and a
\* callback handed to timeout on a closed Connection is never armed and
\* never invoked, the call throwing nothing.
C16_TimeoutCallback ==
    /\ \A k \in 1..Len(timers.invoked) :
          timers.invoked[k].ec # "operation_aborted"
    /\ \A i \in 1..Len(timers.armed) :
          timers.armed[i].wait \in {"cancelled", "dropped"} =>
              \A k \in 1..Len(timers.invoked) :
                  timers.invoked[k].cb # timers.armed[i].cb
    /\ \A j, k \in 1..Len(timers.invoked) :
          timers.invoked[j].cb = timers.invoked[k].cb => j = k
    /\ \A i \in 1..Len(timers.armed) :
          /\ timers.armed[i].wait = "pending" => i = Len(timers.armed)
          /\ timers.armed[i].wait = "fired" <=>
                \E k \in 1..Len(timers.invoked) :
                    timers.invoked[k].cb = timers.armed[i].cb
    /\ \A cb \in timers.refused :
          /\ \A i \in 1..Len(timers.armed) : timers.armed[i].cb # cb
          /\ \A k \in 1..Len(timers.invoked) : timers.invoked[k].cb # cb
    /\ rq.exception = ""

\* a wait re-armed before its expiry whose handler has run, the later
\* wait fired, and a timeout call on the closed Connection
C16_Witness ==
    /\ \E i, j \in 1..Len(timers.armed) :
          /\ i < j
          /\ timers.armed[i].wait = "dropped"
          /\ timers.armed[j].wait = "fired"
    /\ timers.refused # {}

\* ------------------------------------------- claims: order of the states
\* the notifications of the current send() are a prefix of CREATED,
\* SENDING, RECEIVING, HEADER_RECEIVED, RECEIVING, DONE, or a prefix that
\* stops before DONE followed by DONE
InOrder ==
    \/ IsPrefix(States, ScenarioASeq)
    \/ /\ Done
       /\ IsPrefix(SubSeq(States, 1, Len(States) - 1), ScenarioASeq)

\* DONE was notified from an earlier state than the second RECEIVING
Shortcut == Done /\ States # ScenarioASeq

\* an operation of the current send() failed: the resolution gave an
\* error or no endpoint, or a connect, a write or a read ended with an
\* error, end-of-file included
Failed ==
    \E i \in 1..Len(io) :
        io[i].ec # Success \/ (io[i].op = "resolve" /\ io[i].n = 0)

\* C18 as stated: the notifications of a send() follow CREATED, SENDING,
\* RECEIVING, HEADER_RECEIVED, RECEIVING, DONE with nothing skipped,
\* repeated or reordered, but for a direct transition to DONE from an
\* earlier state, which is taken only on failure.
C18_ShortcutOnFailure == InOrder /\ (Shortcut => Failed)

\* the response carries neither Content-Length nor Connection: keep-alive
\* and the directive is close: handle_response_header terminates right
\* after HEADER_RECEIVED
NoBodyExpected ==
    /\ States = <<"CREATED", "SENDING", "RECEIVING", "HEADER_RECEIVED", "DONE">>
    /\ rq.response_.headers.content_length < 0
    /\ rq.response_.headers.connection # "keep-alive"
    /\ rq.connection_type_ = "close"
    /\ Last(rq.notes).status = 200

\* C18 amended: the notifications of a send() follow that order with
\* nothing skipped, repeated or reordered, but for a direct transition to
\* DONE from an earlier state; that shortcut is taken when an operation
\* fails or ends with end-of-file and, with no failure at all, right after
\* HEADER_RECEIVED when the response carries neither Content-Length nor
\* Connection: keep-alive and the directive is close (status 200).
C18_OrderOrShortcut == InOrder /\ (Shortcut => (Failed \/ NoBodyExpected))

\* DONE right after HEADER_RECEIVED with no failed operation
C18_Witness == Shortcut /\ ~Failed /\ NoBodyExpected /\ Answered

\* ------------------------------------ claims: order of the callbacks
\* the callbacks of a queue, as a set
Queued(q) == {q[i] : i \in 1..Len(q)}

\* a queue holds the callbacks in the order of their registration
Ascending(q) == \A i, j \in 1..Len(q) : i < j => q[i] < q[j]

\* the callbacks the completion handler has invoked
InvokedByHandler ==
    {cb \in Registered : calls[cb] # <<>> /\ calls[cb][1].by = "io"}

\* C19: add_callback on a completed Resolver invokes the callback before
\* it returns, with the cached error and endpoints, and queues nothing;
\* on a pending Resolver it queues the callback without invoking it; and
\* the completion handler invokes the queued callbacks in the order of
\* their registration: at any moment the callbacks it has invoked were
\* all registered before those it still holds, which are in registration
\* order.
C19_SynchronousOrFifo ==
    /\ resolver.completed_ => resolver.cbs_ = <<>>
    /\ \A cb \in Queued(resolver.cbs_) \cup Queued(local_cbs["io"])
                 \cup Queued(local_cbs["owner"]) : calls[cb] = <<>>
    /\ \A t \in Callers :
          (pc[t] = "idle" /\ reg[t] # 0) =>
              \/ reg[t] \in Queued(resolver.cbs_) \cup Queued(local_cbs["io"])
                             \cup Queued(local_cbs["owner"])
              \/ calls[reg[t]] # <<>>
    /\ \A cb \in Registered :
          (calls[cb] # <<>> /\ calls[cb][1].by \in Callers) =>
              /\ resolver.completed_
              /\ calls[cb] = <<Invocation(resolver.ec_, resolver.endpoints_,
                                          calls[cb][1].by)>>
    /\ Ascending(resolver.cbs_)
    /\ Ascending(local_cbs["io"])
    /\ \A a \in InvokedByHandler, b \in Queued(local_cbs["io"]) : a < b

\* the completion handler has invoked two queued callbacks and a third
\* one was invoked inside add_callback
C19_Witness ==
    /\ pc["io"] = "done"
    /\ Cardinality(InvokedByHandler) >= 2
    /\ \E cb \in Registered : calls[cb] # <<>> /\ calls[cb][1].by \in Callers

\* ------------------------------- callbacks that call back into the API
\* One thread, the reactor thread "io", on which the completion handlers
\* and every call of the caller run.  pc is its call stack: a frame per
\* function that is being executed, the innermost last.  A std::lock_guard
\* lives as long as its frame: notify_state_change, parse_request and
\* add_on_*_callback hold rq.cbs_mutex_, Resolver::add_callback holds
\* mutex_.  A frame of a user callback (at "run") is code of the caller
\* and may call into the API again.  `req` is "rq", the Request of the
\* model, or "other", a second Request built on the same Resolver with no
\* callback registered: its notify_state_change calls nobody under a
\* cbs_mutex_ of its own, so that only its add_callback is kept.
Frame(fn, at, req, arg, ec, endpoints) ==
    [fn |-> fn, at |-> at, req |-> req, arg |-> arg, ec |-> ec,
     endpoints |-> endpoints]

Top == pc[Len(pc)]

\* the stack with the innermost frame moved to position `at`
Moved(at) == [pc EXCEPT ![Len(pc)].at = at]

UserCallbacks == {"on_state_change", "on_status", "on_body", "resolver_cb"}

Nesting == Cardinality({i \in 1..Len(pc) : pc[i].fn \in UserCallbacks})

Blocked == pc # <<>> /\ Top.at = "blocked"

\* the caller's code runs: outside every handler, or inside a callback
CanCall ==
    /\ rq.exception = ""
    /\ \/ pc = <<>>
       \/ /\ pc # <<>>
          /\ Top.fn \in UserCallbacks /\ Top.at = "run"
          /\ Nesting < MaxNesting

\* std::mutex::lock by the thread that owns the mutex is undefined
\* behaviour: the thread waits for itself for ever, or the library detects
\* it and throws std::system_error(resource_deadlock_would_occur), which
\* unwinds the stack (every lock_guard releases) and leaves the handler.
RelockOutcomes == {"deadlock", "system_error"}

relock(stack, f, r, m, outcome) ==
    IF outcome = "deadlock"
    THEN /\ pc' = Append(stack, [f EXCEPT !.at = "blocked"])
         /\ rq' = [r EXCEPT !.ub = m]
         /\ UNCHANGED <<mutex_, local_cbs>>
    ELSE /\ pc' = <<>>
         /\ rq' = [r EXCEPT !.ub = m, !.exception = "system_error",
                            !.cbs_mutex_ = "free"]
         /\ mutex_' = "free"
         /\ local_cbs' = <<>>

\* std::lock_guard<std::mutex> lock(cbs_mutex_) at the start of f, called
\* with the caller's frames `stack` and the Request as the caller left it
lock_cbs_mutex_(stack, f, r) ==
    IF r.cbs_mutex_ = "free"
    THEN /\ pc' = Append(stack, f)
         /\ rq' = [r EXCEPT !.cbs_mutex_ = "io"]
         /\ UNCHANGED <<mutex_, local_cbs>>
    ELSE \E outcome \in RelockOutcomes :
            relock(stack, f, r, "relock cbs_mutex_", outcome)

\* std::lock_guard<std::mutex> lock(mutex_) at the start of
\* Resolver::add_callback
lock_mutex_(stack, f) ==
    IF mutex_ = "free"
    THEN /\ pc' = Append(stack, f)
         /\ mutex_' = "io"
         /\ UNCHANGED <<rq, local_cbs>>
    ELSE \E outcome \in RelockOutcomes :
            relock(stack, f, rq, "relock mutex_", outcome)

\* the bound on the queue of the Resolver
RoomInQueue == resolver.completed_ \/ Len(resolver.cbs_) < MaxCallbacks

reentryIdle == <<srv, wire, peer, io, timers, next_cb, reg, calls>>

\* A fresh Request, or one that kept its Connection open after an earlier
\* exchange; its Resolver is pending or was built from an endpoint set; the
\* caller has registered no callback yet.
InitReentry ==
    /\ rq \in {[NewRequest("close") EXCEPT
                   !.cbs_ = [on_state_change |-> FALSE, on_status |-> FALSE,
                             on_body |-> FALSE]],
               [NewRequest("keep_alive") EXCEPT
                   !.cbs_ = [on_state_change |-> FALSE, on_status |-> FALSE,
                             on_body |-> FALSE],
                   !.conn_ = 1, !.ids_ = 2, !.open = TRUE, !.wraps = 1,
                   !.sends = 1]}
    /\ srv \in {x \in Servers : x.silent}
    /\ wire = <<>>
    /\ peer = "none"
    /\ io = <<>>
    /\ timers = NoTimers
    /\ mutex_ = "free"
    /\ pc = <<>>
    /\ next_cb = 1
    /\ reg = <<>>
    /\ local_cbs = <<>>
    /\ result = <<Success, 0>>
    /\ calls = <<>>
    /\ resolver \in {[completed_ |-> FALSE, ec_ |-> Success,
                      endpoints_ |-> 0, cbs_ |-> <<>>],
                     [completed_ |-> TRUE, ec_ |-> Success,
                      endpoints_ |-> 1, cbs_ |-> <<>>]}

\* Request::add_on_status_callback, add_on_body_callback and
\* add_on_state_change_callback, called by the caller's code
call_add_on_callback ==
    /\ CanCall
    /\ \E cb \in {"on_state_change", "on_status", "on_body"} :
          lock_cbs_mutex_(pc, Frame("add_on_callback", "locked", "rq", cb,
                                    Success, 0), rq)
    /\ UNCHANGED <<resolver, result>>
    /\ UNCHANGED reentryIdle

\* under the lock: cbs_->on_... = std::move(cb)
add_on_callback_store ==
    /\ pc # <<>>
    /\ Top.fn = "add_on_callback" /\ Top.at = "locked"
    /\ rq' = [rq EXCEPT !.cbs_[Top.arg] = TRUE]
    /\ pc' = Moved("return")
    /\ UNCHANGED <<resolver, mutex_, local_cbs, result>>
    /\ UNCHANGED reentryIdle

\* Request::send, called by the caller's code: notify_state_change(CREATED)
\* first, for the Request of the model
call_send ==
    /\ CanCall
    /\ RoomInQueue
    /\ \/ /\ rq.sends < MaxSends
          /\ lock_cbs_mutex_(
                 Append(pc, Frame("send", "add_callback", "rq", "", Success, 0)),
                 Frame("notify_state_change", "locked", "rq", "CREATED",
                       Success, 0),
                 [rq EXCEPT !.sends = @ + 1])
       \/ lock_mutex_(
              Append(pc, Frame("send", "return", "other", "", Success, 0)),
              Frame("add_callback", "locked", "other", "send_cb", Success, 0))
    /\ UNCHANGED <<resolver, result>>
    /\ UNCHANGED reentryIdle

\* Request::notify_state_change under the lock:
\* if (cbs_->on_state_change) cbs_->on_state_change(state, response_)
notify_state_change_invoke ==
    /\ pc # <<>>
    /\ Top.fn = "notify_state_change" /\ Top.at = "locked"
    /\ pc' = IF rq.cbs_.on_state_change
             THEN Append(Moved("return"),
                         Frame("on_state_change", "run", "rq", Top.arg,
                               Success, 0))
             ELSE Moved("return")
    /\ UNCHANGED <<rq, resolver, mutex_, local_cbs, result>>
    /\ UNCHANGED reentryIdle

\* Request::send after notify_state_change: resolver_->add_callback(...)
send_add_callback ==
    /\ pc # <<>>
    /\ Top.fn = "send" /\ Top.at = "add_callback"
    /\ RoomInQueue
    /\ lock_mutex_(Moved("return"),
                   Frame("add_callback", "locked", "rq", "send_cb", Success, 0))
    /\ UNCHANGED <<resolver, result>>
    /\ UNCHANGED reentryIdle

\* Resolver::add_callback called by the caller's code with a callback of
\* its own
call_add_callback ==
    /\ CanCall
    /\ RoomInQueue
    /\ lock_mutex_(pc, Frame("add_callback", "locked", "", "resolver_cb",
                             Success, 0))
    /\ UNCHANGED <<resolver, result>>
    /\ UNCHANGED reentryIdle

\* Resolver::add_callback under the lock: queue the callback, or call it
\* with the cached result
add_callback_run ==
    /\ pc # <<>>
    /\ Top.fn = "add_callback" /\ Top.at = "locked"
    /\ IF ~resolver.completed_
       THEN /\ resolver' = [resolver EXCEPT
                               !.cbs_ = Append(@, [cb |-> Top.arg,
                                                   req |-> Top.req])]
            /\ pc' = Moved("return")
       ELSE /\ pc' = Append(Moved("return"),
                            Frame(Top.arg, "run", Top.req, "",
                                  resolver.ec_, resolver.endpoints_))
            /\ UNCHANGED resolver
    /\ UNCHANGED <<rq, mutex_, local_cbs, result>>
    /\ UNCHANGED reentryIdle

\* the callback Request::send registers with the Resolver, called with
\* (ec, endpoints): terminate and post go on to notify_state_change,
\* connect with endpoints starts an asynchronous connect and returns
send_cb_run ==
    /\ pc # <<>>
    /\ Top.fn = "send_cb" /\ Top.at = "run"
    /\ IF Top.req = "other"
       THEN /\ pc' = Moved("return")
            /\ UNCHANGED <<rq, mutex_, local_cbs>>
       ELSE IF Top.ec # Success
       THEN lock_cbs_mutex_(Moved("return"),
                Frame("notify_state_change", "locked", "rq", "DONE",
                      Success, 0),
                [rq EXCEPT !.response_.status_code = 0,
                           !.term_ec = "connection_aborted"])
       ELSE IF (rq.conn_ = 0 \/ ~rq.open) /\ Top.endpoints = 0
       THEN lock_cbs_mutex_(Moved("return"),
                Frame("notify_state_change", "locked", "rq", "DONE",
                      Success, 0),
                [rq EXCEPT !.response_.status_code = 0,
                           !.term_ec = "not_connected"])
       ELSE IF rq.conn_ = 0 \/ ~rq.open
       THEN /\ pc' = Moved("return")
            /\ rq' = connect(rq, Top.endpoints)
            /\ UNCHANGED <<mutex_, local_cbs>>
       ELSE lock_cbs_mutex_(Moved("return"),
                Frame("notify_state_change", "locked", "rq", "SENDING",
                      Success, 0),
                init_parser(build(rq)))
    /\ UNCHANGED <<resolver, result>>
    /\ UNCHANGED reentryIdle

\* the completion handler of async_resolve: under the lock it stores the
\* result and moves the queue out, then it releases the lock
on_resolve ==
    /\ pc = <<>>
    /\ rq.exception = ""
    /\ ~resolver.completed_
    /\ \E res \in Resolutions :
          /\ result' = res
          /\ resolver' = [completed_ |-> TRUE, ec_ |-> res[1],
                          endpoints_ |-> res[2], cbs_ |-> <<>>]
          /\ pc' = <<Frame("resolve", "invoke", "", "", res[1], res[2])>>
    /\ local_cbs' = resolver.cbs_
    /\ UNCHANGED <<rq, mutex_>>
    /\ UNCHANGED reentryIdle

\* while (not cbs.empty()): cb(ec, endpoints); cbs.pop(), the lock released
on_resolve_invoke ==
    /\ pc # <<>>
    /\ Top.fn = "resolve" /\ Top.at = "invoke"
    /\ IF local_cbs = <<>>
       THEN /\ pc' = SubSeq(pc, 1, Len(pc) - 1)
            /\ UNCHANGED local_cbs
       ELSE /\ pc' = Append(pc, Frame(Head(local_cbs).cb, "run",
                                      Head(local_cbs).req, "",
                                      Top.ec, Top.endpoints))
            /\ local_cbs' = Tail(local_cbs)
    /\ UNCHANGED <<rq, resolver, mutex_, result>>
    /\ UNCHANGED reentryIdle

\* Request::parse_request, called by handle_response_header with the
\* header block (the parser emits on_status) and by handle_response_body
\* with body bytes (it emits on_body), once a request was posted
call_parse_request ==
    /\ pc = <<>>
    /\ rq.exception = ""
    /\ rq.wraps > 0
    /\ \E cb \in {"on_status", "on_body"} :
          lock_cbs_mutex_(pc, Frame("parse_request", "locked", "rq", cb,
                                    Success, 0), rq)
    /\ UNCHANGED <<resolver, result>>
    /\ UNCHANGED reentryIdle

\* http_parser_execute under the lock: the wrapper init_parser installed
\* calls the callback the caller registered, if any
parse_request_invoke ==
    /\ pc # <<>>
    /\ Top.fn = "parse_request" /\ Top.at = "locked"
    /\ pc' = IF rq.cbs_[Top.arg]
             THEN Append(Moved("return"),
                         Frame(Top.arg, "run", "rq", "", Success, 0))
             ELSE Moved("return")
    /\ UNCHANGED <<rq, resolver, mutex_, local_cbs, result>>
    /\ UNCHANGED reentryIdle

\* the innermost function returns; its lock_guard, if it has one, releases
\* the mutex
return_from ==
    /\ pc # <<>>
    /\ (Top.at = "return" \/ (Top.fn \in UserCallbacks /\ Top.at = "run"))
    /\ pc' = SubSeq(pc, 1, Len(pc) - 1)
    /\ rq' = IF Top.fn \in {"notify_state_change", "parse_request",
                            "add_on_callback"}
             THEN [rq EXCEPT !.cbs_mutex_ = "free"] ELSE rq
    /\ mutex_' = IF Top.fn = "add_callback" THEN "free" ELSE mutex_
    /\ UNCHANGED <<resolver, local_cbs, result>>
    /\ UNCHANGED reentryIdle

NextReentry ==
    \/ call_add_on_callback
    \/ add_on_callback_store
    \/ call_send
    \/ notify_state_change_invoke
    \/ send_add_callback
    \/ call_add_callback
    \/ add_callback_run
    \/ send_cb_run
    \/ on_resolve
    \/ on_resolve_invoke
    \/ call_parse_request
    \/ parse_request_invoke
    \/ return_from

ReentrySpec == InitReentry /\ [][NextReentry]_vars

\* ------------------------------------------------------------------ C21
\* C21: a callback may call back into the object that called it and the
\* call returns: a state-change, status or body callback calling
\* add_on_*_callback on its Request, and a callback called by a completed
\* Resolver calling add_callback (directly, or through send() on a Request
\* built on that Resolver) never find the mutex they need held by their
\* own thread, so that no call blocks for ever or is thrown out of.
C21_ReentrantCallsReturn == ~Blocked /\ rq.exception # "system_error"

\* the re-entrant calls that do return: the callbacks the async_resolve
\* handler takes from the queue run with mutex_ released
C21_HandlerCallbackReenters ==
    /\ Len(pc) >= 3
    /\ pc[1].fn = "resolve"
    /\ Top.fn = "add_callback" /\ Top.at = "return"
    /\ \E i \in 1..Len(pc) : pc[i].fn \in UserCallbacks

\* ------------------------------------------------------------------ C22
\* C22: whatever the number of send() calls on one Request, a body event
\* of the parser appends its chunk to the response body exactly once: the
\* number of earlier send() calls does not change how often a chunk is
\* appended.
C22_AppendedOnce == rq.appends <= 1

\* the part of C22 that the first send() satisfies: with one init_parser
\* call behind it, a body event appends its chunk once
C22_FirstSendOnce == rq.wraps <= 1 => rq.appends <= 1

====
